---- MODULE Spec2Model ----
(***************************************************************************)
(* A model of rust-timeit (src/main.rs, src/timeit.rs): the generation of  *)
(* the benchmark project, the cache directory's life cycle and the run of  *)
(* `cargo bench`.                                                          *)
(*                                                                         *)
(* Text is a sequence of lexical tokens.  A marker of a template is the    *)
(* three tokens of its spelling (opening delimiter, name, closing          *)
(* delimiter), so that str::replace is modelled as what it is: a search    *)
(* for a substring, replaced wherever it is found.                         *)
(* An Option<T> is a sequence of length 0 (None) or 1 (Some).              *)
(* The model is of the Linux build (cfg(target_os = "linux")).             *)
(***************************************************************************)
EXTENDS Integers, Sequences, FiniteSets, TLC

VARIABLES
    args,       \* the Args record (main.rs:73-118); dependency and uses are mutated
    perfArg,    \* the raw value of --perf on the command line
    pc,         \* the position of main
    includes,   \* the text main holds from Args::includes
    fs,         \* the file system: the cache directory, benches/, the files in it
    fs0,        \* the file system as it was when the run began
    cwd,        \* the process's working directory: "orig" or "base"
    filename,   \* create's parameter filename
    subst,      \* create's parameter subst
    data,       \* create's local data
    created,    \* the (filename, data) of every create that returned Ok, in order
    runner,     \* how often cargo was started, and its exit status
    exit,       \* the exit status of the process, once it has ended
    err,        \* why the process ended, when it ended early
    calls       \* the methods of Args called so far, with what they returned

vars == <<args, perfArg, pc, includes, fs, fs0, cwd, filename, subst, data,
          created, runner, exit, err, calls>>

None == <<>>
Some(x) == <<x>>

(***************************************************************************)
(* Bounds                                                                  *)
(***************************************************************************)
MaxExprs == 2      \* the longest list of expressions
MaxCalls == 3      \* the number of method calls in the generation harness

(***************************************************************************)
(* Constants of the program                                                *)
(***************************************************************************)
BASE == <<"timeit">>
BASE_NAME == "timeit"
CYCLES_DEP == <<"criterion-cycles-per-byte = \"0.1.2\"">>
PERF_DEP == <<"criterion-linux-perf = \"0.1\"">>
CYCLES_USE == <<"criterion_cycles_per_byte::CyclesPerByte">>
PERF_USE == <<"criterion_linux_perf::{PerfMeasurement, PerfMode}">>

\* include_str!("timeit.rs")
TIMEIT_RS ==
    << "#![allow(unused_imports)]", "#![allow(redundant_semicolons)]",
       "use criterion::{", "black_box", ", criterion_group, criterion_main,",
       "measurement::{Measurement, ", "WallTime", "}, Criterion, };",
       "/*", "USES", "*/",
       "/*", "INCLUDES", "*/",
       "fn timeit<T: 'static + Measurement>(_crit: &mut Criterion<T>) {",
       "/*", "SETUP", "*/",
       "/*", "EXPRESSIONS", "*/",
       "}",
       "criterion_group!( name = benches; config = Criterion::default().with_measurement(",
       "/*", "TIMER", "*/",
       "); targets = timeit );",
       "criterion_main!(benches);" >>

\* include_str!("Cargo.toml.tmpl"): the manifest template, with the
\* project-name marker and the dependency-block marker.
CARGO_TOML ==
    << "[package] name = \"", "@", "BASE", "@", "\" version = \"0.0.0\"",
       "[[bench]] name = \"", "@", "BASE", "@", "\" harness = false",
       "[dependencies] criterion = \"0.3\"",
       "@", "DEPENDENCIES", "@" >>

\* include_str!("expression.rs"): the snippet template, with the black-box
\* marker and the expression marker.
TIMEIT_EXPRESSION ==
    << "_crit.bench_function(\"expression\", |b| b.iter(|| ",
       "/*", "BLACK_BOX", "*/", "(", "/*", "EXPRESSION", "*/", ")));" >>

Marker(name) == <<"/*", name, "*/">>
AtMarker(name) == <<"@", name, "@">>

(***************************************************************************)
(* Text                                                                    *)
(***************************************************************************)
\* str::replace: every non-overlapping match of key, from the left, becomes
\* val; what was put in is not searched again.
RECURSIVE Replace(_, _, _)
Replace(s, key, val) ==
    IF Len(s) < Len(key) THEN s
    ELSE IF SubSeq(s, 1, Len(key)) = key
         THEN val \o Replace(SubSeq(s, Len(key) + 1, Len(s)), key, val)
         ELSE <<s[1]>> \o Replace(Tail(s), key, val)

\* [String]::join
RECURSIVE Join(_, _)
Join(list, sep) ==
    IF list = <<>> THEN <<>>
    ELSE IF Len(list) = 1 THEN list[1]
    ELSE list[1] \o sep \o Join(Tail(list), sep)

NL == <<"\n">>

\* format!("use {};\n", import)
FormatUse(import) == <<"use ">> \o import \o <<";\n">>

\* format!("{};", s)
FormatSetup(s) == s \o <<";">>

(***************************************************************************)
(* PerfMode                                                                *)
(***************************************************************************)
all_modes ==
    << "cycles", "instructions", "branches", "branch-misses",
       "cache-refs", "cache-misses", "bus-cycles", "ref-cycles" >>

PerfIdents ==
    << "Cycles", "Instructions", "Branches", "BranchMisses",
       "CacheRefs", "CacheMisses", "BusCycles", "RefCycles" >>

\* PerfMode is the index of the variant.
PerfMode == 1..Len(all_modes)

as_perf_mode(mode) == PerfIdents[mode]

\* from_str: "help" ends the process, a word of the list is its mode, any
\* other word is an error.
from_str(s) ==
    IF s = "help" THEN [kind |-> "exit", mode |-> None]
    ELSE IF \E m \in PerfMode : all_modes[m] = s
         THEN [kind |-> "ok", mode |-> Some(CHOOSE m \in PerfMode : all_modes[m] = s)]
         ELSE [kind |-> "err", mode |-> None]

(***************************************************************************)
(* Args                                                                    *)
(***************************************************************************)
\* Args::dependencies: pushes the backend's line onto self.dependency,
\* then joins self.dependency.
dependencies(self) ==
    LET d1 == IF self.cycles THEN Append(self.dependency, CYCLES_DEP)
              ELSE self.dependency
        d2 == IF self.perf # None THEN Append(d1, PERF_DEP) ELSE d1
    IN  [self |-> [self EXCEPT !.dependency = d2], ret |-> Join(d2, NL)]

\* Args::uses: pushes the backend's import onto self.uses, then formats
\* every entry and joins them.
uses(self) ==
    LET u1 == IF self.cycles THEN Append(self.uses, CYCLES_USE) ELSE self.uses
        u2 == IF self.perf # None THEN Append(u1, PERF_USE) ELSE u1
    IN  [self |-> [self EXCEPT !.uses = u2],
         ret  |-> Join([i \in 1..Len(u2) |-> FormatUse(u2[i])], <<>>)]

\* Args::setup
setup(self) ==
    IF self.setup # None THEN FormatSetup(self.setup[1]) ELSE <<>>

\* A closure that wraps whatever the flag says.
ExpandSnippetAlwaysWrapped(self, expression) ==
    Replace(Replace(TIMEIT_EXPRESSION, Marker("BLACK_BOX"), <<"black_box">>),
            Marker("EXPRESSION"), expression)

\* The closure of Args::expressions: one snippet.
ExpandSnippet(self, expression) ==
    LET black_box == IF self.black_box THEN <<"black_box">> ELSE <<>>
    IN  Replace(Replace(TIMEIT_EXPRESSION, Marker("BLACK_BOX"), black_box),
                Marker("EXPRESSION"), expression)

\* Args::expressions
expressions(self) ==
    Join([i \in 1..Len(self.expression) |-> ExpandSnippet(self, self.expression[i])],
         NL)

\* Args::timer
timer(self) ==
    IF self.perf # None
    THEN <<"PerfMeasurement::new(PerfMode::", as_perf_mode(self.perf[1]), ")">>
    ELSE IF self.cycles THEN <<"CyclesPerByte">> ELSE <<"WallTime">>

(***************************************************************************)
(* create                                                                  *)
(***************************************************************************)
\* A create that writes the target itself.
TempNameInPlace(name) == name

\* format!("{}.tmp", filename)
TempName(name) == name \o ".tmp"

\* The loop of create: one replace per pair, each on the result of the last.
RECURSIVE Substitute(_, _)
Substitute(template, pairs) ==
    IF pairs = <<>> THEN template
    ELSE Substitute(Replace(template, pairs[1][1], pairs[1][2]), Tail(pairs))

(***************************************************************************)
(* The file system                                                         *)
(***************************************************************************)
MANIFEST == "Cargo.toml"
SOURCE == "benches/" \o BASE_NAME \o ".rs"
CRITERION == "target/criterion"
LOCK == "Cargo.lock"

Files == {MANIFEST, MANIFEST \o ".tmp", SOURCE, SOURCE \o ".tmp", LOCK, CRITERION}

NoFiles == [f \in Files |-> None]

\* The cache directory does not exist.
FsAbsent == [dir |-> FALSE, benches |-> FALSE, files |-> NoFiles]

\* The cache directory exists and is empty.
FsEmpty == [dir |-> TRUE, benches |-> FALSE, files |-> NoFiles]

\* The cache directory as an earlier run left it: the project, cargo's lock
\* file and results, and the temporary file of a write that failed.
OldText(f) == <<"old content of ", f>>
FsPopulated ==
    [dir |-> TRUE, benches |-> TRUE,
     files |-> [f \in Files |->
                   IF f = SOURCE \o ".tmp" THEN None
                   ELSE IF f = MANIFEST \o ".tmp" THEN Some(<<"old partial content">>)
                   ELSE Some(OldText(f))]]

PriorStates == {FsAbsent, FsEmpty, FsPopulated}

\* The contents of an include file.
FileText(name) ==
    IF name = "m.rs" THEN <<"// m.rs">> \o Marker("EXPRESSIONS")
    ELSE <<"// contents of ", name>>

(***************************************************************************)
(* The inputs                                                              *)
(***************************************************************************)
ExprTexts == { <<"1 + 1">>, <<"black_box", "(2)">> }

ExprLists == UNION { [1..n -> ExprTexts] : n \in 0..MaxExprs }

\* The text options of a command line: --setup, --dependency, --use, --include.
Fragments ==
    { [setup |-> None, dependency |-> <<>>, uses |-> <<>>, include |-> <<>>],
      [setup |-> Some(<<"let x = 1">>),
       dependency |-> << <<"rand = \"0.8\"">>, <<"regex = \"1\"">> >>,
       uses |-> << <<"rand::Rng">> >>,
       include |-> <<"a.rs", "b.rs">>],
      [setup |-> Some(Marker("TIMER")),
       dependency |-> << <<"regex = \"1\"">>, <<"rand = \"0.8\"">> >>,
       uses |-> <<>>,
       include |-> <<"a.rs">>],
      [setup |-> Some(<<"let y = 2">>),
       dependency |-> << AtMarker("BASE") >>,
       uses |-> << <<"std::fmt">>, Marker("SETUP") >>,
       include |-> <<"m.rs">>] }

PerfArgs == { None, Some("help"), Some("cache-misses"), Some("cache") }

ExitStatuses == {0, 1, 101}

MakeArgs(frag, exprs, cycles, perf, bb, fresh, cleanup, verbose) ==
    [setup |-> frag.setup, dependency |-> frag.dependency, uses |-> frag.uses,
     include |-> frag.include, cycles |-> cycles, perf |-> perf,
     black_box |-> bb, fresh |-> fresh, cleanup |-> cleanup,
     verbose |-> verbose, expression |-> exprs]

\* Everything but args, perfArg and pc, as it is when the process starts.
InitRest ==
    /\ includes = <<>>
    /\ fs \in PriorStates
    /\ fs0 = fs
    /\ cwd = "orig"
    /\ filename = ""
    /\ subst = <<>>
    /\ data = <<>>
    /\ created = <<>>
    /\ runner = [starts |-> 0, status |-> None, cmdline |-> <<>>]
    /\ exit = None
    /\ err = None
    /\ calls = <<>>

\* The command line is given; argh has not yet converted --perf.
Init ==
    /\ perfArg \in PerfArgs
    /\ \E frag \in Fragments, exprs \in ExprLists,
          cycles, bb, fresh, cleanup, verbose \in BOOLEAN :
            args = MakeArgs(frag, exprs, cycles, None, bb, fresh, cleanup, verbose)
    /\ pc = "parse"
    /\ InitRest

(***************************************************************************)
(* main                                                                    *)
(***************************************************************************)
\* process::exit(1) after a message on stderr.
Exit1(why) ==
    /\ pc' = "exited"
    /\ exit' = Some(1)
    /\ err' = Some([kind |-> "usage", what |-> why])

\* main returns Err(error): the `?` operator.
Fail(what) ==
    /\ pc' = "exited"
    /\ exit' = Some(1)
    /\ err' = Some([kind |-> "io", what |-> what])

Goto(next) ==
    /\ pc' = next
    /\ UNCHANGED <<exit, err>>

\* argh::from_env: --perf is converted by PerfMode::from_str.
Parse ==
    /\ pc = "parse"
    /\ IF perfArg = None
       THEN Goto("check_expression") /\ UNCHANGED args
       ELSE LET r == from_str(perfArg[1])
            IN  CASE r.kind = "ok" ->
                       /\ args' = [args EXCEPT !.perf = r.mode]
                       /\ Goto("check_expression")
                  [] r.kind = "exit" ->
                       Exit1("perf help") /\ UNCHANGED args
                  [] OTHER ->
                       Exit1("Unknown perf mode") /\ UNCHANGED args
    /\ UNCHANGED <<perfArg, includes, fs, fs0, cwd, filename, subst, data,
                   created, runner, calls>>

CheckExpression ==
    /\ pc = "check_expression"
    /\ IF args.expression = <<>>
       THEN Exit1("Please specify at least one expression")
       ELSE Goto("check_conflict")
    /\ UNCHANGED <<args, perfArg, includes, fs, fs0, cwd, filename, subst, data,
                   created, runner, calls>>

\* A main without the check of --cycles against --perf.
CheckConflictMissing ==
    /\ pc = "check_conflict"
    /\ Goto("includes")
    /\ UNCHANGED <<args, perfArg, includes, fs, fs0, cwd, filename, subst, data,
                   created, runner, calls>>

CheckConflict ==
    /\ pc = "check_conflict"
    /\ IF args.cycles /\ args.perf # None
       THEN Exit1("Cannot specify both --cycles and --perf")
       ELSE Goto("includes")
    /\ UNCHANGED <<args, perfArg, includes, fs, fs0, cwd, filename, subst, data,
                   created, runner, calls>>

\* Args::includes: the files are read in order; the first that cannot be
\* opened or read ends the run.  k files are read before one fails.
ReadIncludes ==
    /\ pc = "includes"
    /\ \E k \in 0..Len(args.include) :
          IF k = Len(args.include)
          THEN /\ includes' = Join([i \in 1..k |-> FileText(args.include[i])], NL)
               /\ Goto("fresh")
          ELSE /\ Fail(args.include[k + 1])
               /\ UNCHANGED includes
    /\ UNCHANGED <<args, perfArg, fs, fs0, cwd, filename, subst, data,
                   created, runner, calls>>

\* A main that does not delete the directory.
FreshSkipped ==
    /\ pc = "fresh"
    /\ Goto("mkdir_base")
    /\ UNCHANGED <<args, perfArg, includes, fs, fs0, cwd, filename, subst, data,
                   created, runner, calls>>

\* remove_dir_all(&base_dir), when --fresh: NotFound is Ok; a failure may
\* have removed the contents already.
Fresh ==
    /\ pc = "fresh"
    /\ IF ~args.fresh \/ ~fs.dir
       THEN Goto("mkdir_base") /\ UNCHANGED fs
       ELSE \/ fs' = FsAbsent /\ Goto("mkdir_base")
            \/ fs' \in {fs, FsEmpty} /\ Fail("remove_dir_all")
    /\ UNCHANGED <<args, perfArg, includes, fs0, cwd, filename, subst, data,
                   created, runner, calls>>

\* fs::create_dir_all(&base_dir)
MkdirBase ==
    /\ pc = "mkdir_base"
    /\ IF fs.dir
       THEN Goto("chdir") /\ UNCHANGED fs
       ELSE \/ fs' = [fs EXCEPT !.dir = TRUE] /\ Goto("chdir")
            \/ UNCHANGED fs /\ Fail("create_dir_all")
    /\ UNCHANGED <<args, perfArg, includes, fs0, cwd, filename, subst, data,
                   created, runner, calls>>

\* env::set_current_dir(&base_dir)
Chdir ==
    /\ pc = "chdir"
    /\ \/ cwd' = "base" /\ Goto("mkdir_benches")
       \/ UNCHANGED cwd /\ Fail("set_current_dir")
    /\ UNCHANGED <<args, perfArg, includes, fs, fs0, filename, subst, data,
                   created, runner, calls>>

\* fs::create_dir_all("benches")
MkdirBenches ==
    /\ pc = "mkdir_benches"
    /\ IF fs.benches
       THEN Goto("create_manifest") /\ UNCHANGED fs
       ELSE \/ fs' = [fs EXCEPT !.benches = TRUE] /\ Goto("create_manifest")
            \/ UNCHANGED fs /\ Fail("create_dir_all")
    /\ UNCHANGED <<args, perfArg, includes, fs0, cwd, filename, subst, data,
                   created, runner, calls>>

\* The pairs main passes to create for Cargo.toml.
ManifestSubst(deps) ==
    << <<AtMarker("DEPENDENCIES"), deps>>, <<AtMarker("BASE"), BASE>> >>

\* The pairs main passes to create for benches/timeit.rs.
SourceSubst(self, usesText, includesText) ==
    << <<Marker("USES"), usesText>>,
       <<Marker("INCLUDES"), includesText>>,
       <<Marker("SETUP"), setup(self)>>,
       <<Marker("EXPRESSIONS"), expressions(self)>>,
       <<Marker("TIMER"), timer(self)>> >>

\* create("Cargo.toml", ...): the arguments are evaluated, then create
\* substitutes them into the template.
CallCreateManifest ==
    /\ pc = "create_manifest"
    /\ LET d == dependencies(args)
       IN  /\ args' = d.self
           /\ filename' = MANIFEST
           /\ subst' = ManifestSubst(d.ret)
           /\ data' = Substitute(CARGO_TOML, ManifestSubst(d.ret))
    /\ Goto("open")
    /\ UNCHANGED <<perfArg, includes, fs, fs0, cwd, created, runner, calls>>

\* create("benches/timeit.rs", ...)
CallCreateSource ==
    /\ pc = "create_source"
    /\ LET u == uses(args)
           pairs == SourceSubst(u.self, u.ret, includes)
       IN  /\ args' = u.self
           /\ filename' = SOURCE
           /\ subst' = pairs
           /\ data' = Substitute(TIMEIT_RS, pairs)
    /\ Goto("open")
    /\ UNCHANGED <<perfArg, includes, fs, fs0, cwd, created, runner, calls>>

\* File::create(&tempname): the file is created, or truncated.
CreateOpen ==
    /\ pc = "open"
    /\ \/ /\ fs' = [fs EXCEPT !.files[TempName(filename)] = Some(<<>>)]
          /\ Goto("write")
       \/ UNCHANGED fs /\ Fail("File::create")
    /\ UNCHANGED <<args, perfArg, includes, fs0, cwd, filename, subst, data,
                   created, runner, calls>>

\* How much of data the file holds after one more write(2).
NextWritten(len) ==
    IF len < Len(data) \div 2 THEN Len(data) \div 2 ELSE Len(data)

\* out.write_all(data.as_bytes()), out.flush(), drop(out): the data reaches
\* the file piece by piece; an error leaves what was written.
CreateWrite ==
    /\ pc = "write"
    /\ LET tmp == TempName(filename)
           len == Len(fs.files[tmp][1])
       IN  \/ /\ fs' = [fs EXCEPT !.files[tmp] = Some(SubSeq(data, 1, NextWritten(len)))]
              /\ Goto(IF NextWritten(len) = Len(data) THEN "rename" ELSE "write")
           \/ UNCHANGED fs /\ Fail("write_all")
    /\ UNCHANGED <<args, perfArg, includes, fs0, cwd, filename, subst, data,
                   created, runner, calls>>

\* A create that goes on when the rename fails.
CreateRenameUnchecked ==
    /\ pc = "rename"
    /\ LET tmp == TempName(filename)
       IN  \/ /\ fs' = [fs EXCEPT !.files =
                          [f \in Files |->
                              IF f = filename THEN fs.files[tmp]
                              ELSE IF f = tmp THEN None
                              ELSE fs.files[f]]]
              /\ created' = Append(created, <<filename, data>>)
           \/ UNCHANGED <<fs, created>>
    /\ Goto(IF filename = MANIFEST THEN "create_source" ELSE "clear")
    /\ UNCHANGED <<args, perfArg, includes, fs0, cwd, filename, subst, data,
                   runner, calls>>

\* fs::rename(tempname, filename)
CreateRename ==
    /\ pc = "rename"
    /\ LET tmp == TempName(filename)
       IN  \/ /\ fs' = [fs EXCEPT !.files =
                          [f \in Files |->
                              IF f = filename THEN fs.files[tmp]
                              ELSE IF f = tmp THEN None
                              ELSE fs.files[f]]]
              /\ created' = Append(created, <<filename, data>>)
              /\ Goto(IF filename = MANIFEST THEN "create_source" ELSE "clear")
           \/ UNCHANGED <<fs, created>> /\ Fail("rename")
    /\ UNCHANGED <<args, perfArg, includes, fs0, cwd, filename, subst, data,
                   runner, calls>>

\* fs::remove_dir_all("target/criterion").ok()
ClearCriterion ==
    /\ pc = "clear"
    /\ \/ fs' = [fs EXCEPT !.files[CRITERION] = None]
       \/ fs.files[CRITERION] # None /\ UNCHANGED fs
    /\ Goto("run")
    /\ UNCHANGED <<args, perfArg, includes, fs0, cwd, filename, subst, data,
                   created, runner, calls>>

\* The arguments of cargo.
Cmdline(self) ==
    <<"bench", "--bench", "timeit", "--", "--noplot">>
        \o (IF self.verbose THEN <<"--verbose">> ELSE <<>>)

\* process::Command::new("cargo").args(&cmdline).status()?: Err when cargo
\* cannot be started; otherwise cargo runs to its end, and its ExitStatus
\* is the value of the expression statement.
RunCargo ==
    /\ pc = "run"
    /\ \/ /\ \E st \in ExitStatuses :
                /\ runner' = [starts |-> runner.starts + 1, status |-> Some(st),
                              cmdline |-> Cmdline(args)]
                /\ fs' = [fs EXCEPT
                            !.files[LOCK] = Some(<<"lock">>),
                            !.files[CRITERION] =
                                IF st = 0 THEN Some(<<"results">>) ELSE @]
          /\ Goto("cleanup")
       \/ UNCHANGED <<fs, runner>> /\ Fail("cargo")
    /\ UNCHANGED <<args, perfArg, includes, fs0, cwd, filename, subst, data,
                   created, calls>>

\* A cleanup whose failure is reported and dropped.
CleanupBestEffort ==
    /\ pc = "cleanup"
    /\ IF args.cleanup
       THEN fs' \in {FsAbsent, fs, FsEmpty}
       ELSE UNCHANGED fs
    /\ pc' = "exited" /\ exit' = Some(0) /\ UNCHANGED err
    /\ UNCHANGED <<args, perfArg, includes, fs0, cwd, filename, subst, data,
                   created, runner, calls>>

\* if args.cleanup { fs::remove_dir_all(&base_dir)?; }  Ok(())
Cleanup ==
    /\ pc = "cleanup"
    /\ IF args.cleanup
       THEN \/ /\ fs' = FsAbsent
               /\ pc' = "exited" /\ exit' = Some(0) /\ UNCHANGED err
            \/ fs' \in {fs, FsEmpty} /\ Fail("cleanup")
       ELSE /\ UNCHANGED fs
            /\ pc' = "exited" /\ exit' = Some(0) /\ UNCHANGED err
    /\ UNCHANGED <<args, perfArg, includes, fs0, cwd, filename, subst, data,
                   created, runner, calls>>

Next ==
    \/ Parse
    \/ CheckExpression
    \/ CheckConflict
    \/ ReadIncludes
    \/ Fresh
    \/ MkdirBase
    \/ Chdir
    \/ MkdirBenches
    \/ CallCreateManifest
    \/ CallCreateSource
    \/ CreateOpen
    \/ CreateWrite
    \/ CreateRename
    \/ ClearCriterion
    \/ RunCargo
    \/ Cleanup

Spec == Init /\ [][Next]_vars

(***************************************************************************)
(* The generation harness: the methods of Args that produce the blocks of  *)
(* the two artifacts, called in any order and any number of times on one   *)
(* valid Args.                                                             *)
(***************************************************************************)
InitGen ==
    /\ perfArg = None
    /\ \E frag \in Fragments, exprs \in ExprLists \ {<<>>},
          cycles, bb \in BOOLEAN, perf \in {None, Some(6)} :
            /\ ~(cycles /\ perf # None)
            /\ args = MakeArgs(frag, exprs, cycles, perf, bb, FALSE, FALSE, FALSE)
    /\ pc = "gen"
    /\ InitRest
    /\ fs = FsAbsent

Called(method, ret) ==
    /\ pc = "gen"
    /\ Len(calls) < MaxCalls
    /\ calls' = Append(calls, [method |-> method, ret |-> ret])
    /\ UNCHANGED <<perfArg, pc, includes, fs, fs0, cwd, filename, subst, data,
                   created, runner, exit, err>>

GenDependencies ==
    /\ args' = dependencies(args).self
    /\ Called("dependencies", dependencies(args).ret)

GenUses ==
    /\ args' = uses(args).self
    /\ Called("uses", uses(args).ret)

GenSetup ==
    /\ UNCHANGED args
    /\ Called("setup", setup(args))

GenExpressions ==
    /\ UNCHANGED args
    /\ Called("expressions", expressions(args))

GenTimer ==
    /\ UNCHANGED args
    /\ Called("timer", timer(args))

NextGen ==
    \/ GenDependencies
    \/ GenUses
    \/ GenSetup
    \/ GenExpressions
    \/ GenTimer

SpecGen == InitGen /\ [][NextGen]_vars

(***************************************************************************)
(* What the properties speak of                                            *)
(***************************************************************************)
\* How often the token occurs in the text.
RECURSIVE Count(_, _)
Count(tok, s) ==
    IF s = <<>> THEN 0
    ELSE (IF s[1] = tok THEN 1 ELSE 0) + Count(tok, Tail(s))

\* The pieces of the text between the occurrences of the token.
RECURSIVE SplitAt(_, _, _)
SplitAt(tok, s, piece) ==
    IF s = <<>> THEN <<piece>>
    ELSE IF s[1] = tok THEN <<piece>> \o SplitAt(tok, Tail(s), <<>>)
    ELSE SplitAt(tok, Tail(s), Append(piece, s[1]))

\* The template with every marker replaced by its value in one pass from
\* the left: what a value puts in is never looked at again.
RECURSIVE OnePass(_, _)
OnePass(template, pairs) ==
    IF template = <<>> THEN <<>>
    ELSE LET hits == { i \in 1..Len(pairs) :
                         /\ Len(pairs[i][1]) <= Len(template)
                         /\ SubSeq(template, 1, Len(pairs[i][1])) = pairs[i][1] }
         IN  IF hits = {}
             THEN <<template[1]>> \o OnePass(Tail(template), pairs)
             ELSE LET i == CHOOSE i \in hits : TRUE
                  IN  pairs[i][2] \o
                      OnePass(SubSeq(template, Len(pairs[i][1]) + 1, Len(template)), pairs)

Exited == pc = "exited"
RunnerFailed == runner.status # None /\ runner.status[1] # 0
Targets == {MANIFEST, SOURCE}
TemplateOf(name) == IF name = MANIFEST THEN CARGO_TOML ELSE TIMEIT_RS

\* The file holds nothing it held when the run began.
NotFromBefore(f) == fs.files[f] # None => fs.files[f] # fs0.files[f]

(***************************************************************************)
(* C1: when the run reached cargo and cargo exited non-zero, the tool      *)
(* exits non-zero.                                                         *)
(***************************************************************************)
C1_RunnerStatusPropagated ==
    (Exited /\ RunnerFailed) => exit # Some(0)

(***************************************************************************)
(* C2: when cargo exited non-zero, the cache directory is still there      *)
(* when the tool has finished, whatever --cleanup says.                    *)
(***************************************************************************)
C2_FailedRunKeepsDirectory ==
    (Exited /\ RunnerFailed) => fs.dir

IncludeFailed ==
    /\ err # None
    /\ err[1].kind = "io"
    /\ \E i \in 1..Len(args.include) : err[1].what = args.include[i]

C4_NoMutationBeforeValidation ==
    /\ (\/ args.expression = <<>>
        \/ args.cycles /\ args.perf # None
        \/ IncludeFailed) => (fs = fs0 /\ cwd = "orig")
    /\ pc \in {"parse", "check_expression", "check_conflict", "includes", "fresh"}
          => (fs = fs0 /\ cwd = "orig")

C4_Witness ==
    /\ Exited /\ IncludeFailed /\ args.fresh
    /\ Len(args.include) = 2 /\ err[1].what = args.include[2]
    /\ fs0 = FsPopulated /\ fs = fs0

(***************************************************************************)
(* C5: the file at a target path is always absent, what it was when the    *)
(* run began, or the whole data of a create that returned Ok; and a step   *)
(* in which write_all or rename fails leaves the target as it was and the  *)
(* temporary file in place.                                                *)
(***************************************************************************)
TargetWhole(f) ==
    \/ fs.files[f] \in {None, fs0.files[f]}
    \/ \E i \in 1..Len(created) :
          /\ created[i][1] = f
          /\ fs.files[f] = Some(created[i][2])

WriteFailsCleanly ==
    (pc \in {"write", "rename"} /\ pc' = "exited") =>
        /\ fs'.files[filename] = fs.files[filename]
        /\ fs'.files[filename \o ".tmp"] # None
        /\ fs'.files[filename \o ".tmp"] = fs.files[filename \o ".tmp"]

C5_AtomicArtifacts ==
    /\ [](\A f \in Targets : TargetWhole(f))
    /\ [][WriteFailsCleanly]_vars

C5_Witness ==
    /\ Exited /\ filename = SOURCE
    /\ err = Some([kind |-> "io", what |-> "write_all"])
    /\ fs.files[SOURCE] = Some(OldText(SOURCE))
    /\ fs.files[SOURCE \o ".tmp"] # None
    /\ Len(fs.files[SOURCE \o ".tmp"][1]) \in 1..(Len(data) - 1)

(***************************************************************************)
(* C6: with --fresh, whatever the directory was, it is absent after the    *)
(* deletion (its absence before is no error), then exists empty with       *)
(* benches/, and nothing from before the run is in it once it is           *)
(* populated; without --fresh the directory and its files are kept and     *)
(* the creation changes nothing that exists.                               *)
(***************************************************************************)
C6_FreshStartsEmpty ==
    /\ (args.fresh /\ pc = "mkdir_base") => fs = FsAbsent
    /\ (args.fresh /\ pc = "create_manifest") =>
          fs = [dir |-> TRUE, benches |-> TRUE, files |-> NoFiles]
    /\ (args.fresh /\ cwd = "base") => \A f \in Files : NotFromBefore(f)
    /\ (args.fresh /\ Exited /\ ~fs0.dir /\ err # None) =>
          err[1].what # "remove_dir_all"
    /\ (~args.fresh /\ pc \in {"mkdir_base", "chdir", "mkdir_benches", "create_manifest"})
          => /\ fs.files = fs0.files
             /\ fs0.dir => fs.dir
             /\ fs0.benches => fs = fs0
    /\ (~args.fresh /\ runner.starts = 0) => fs.files[LOCK] = fs0.files[LOCK]

C6_Witness ==
    /\ args.fresh /\ fs0 = FsPopulated /\ pc = "clear"
    /\ fs.files[MANIFEST] # None /\ fs.files[SOURCE] # None
    /\ fs.files[LOCK] = None

(***************************************************************************)
(* C7, as claimed: without --black_box the token black_box is nowhere in   *)
(* the generated source; with it, every expanded snippet holds exactly     *)
(* one.                                                                    *)
(***************************************************************************)
Snippets == SplitAt("\n", subst[4][2], <<>>)

C7_NoTokenUnlessWrapped ==
    (pc = "clear") =>
        IF args.black_box
        THEN \A i \in 1..Len(Snippets) : Count("black_box", Snippets[i]) = 1
        ELSE Count("black_box", fs.files[SOURCE][1]) = 0

(***************************************************************************)
(* C7, amended: the generated source always holds the token, in the        *)
(* template's `use criterion::{black_box, ...}`; there is one expanded     *)
(* snippet per expression, in order, and a snippet holds the token as      *)
(* often as its expression's text does, plus exactly once with             *)
(* --black_box.                                                            *)
(***************************************************************************)
C7_WrapperPerSnippet ==
    (pc = "clear") =>
        /\ Count("black_box", fs.files[SOURCE][1]) >= 1
        /\ Len(Snippets) = Len(args.expression)
        /\ \A i \in 1..Len(Snippets) :
              Count("black_box", Snippets[i]) =
                  (IF args.black_box THEN 1 ELSE 0)
                      + Count("black_box", args.expression[i])

C7_Witness ==
    /\ pc = "clear" /\ args.black_box /\ Len(args.expression) = 2
    /\ Count("black_box", args.expression[1]) = 0
    /\ Count("black_box", args.expression[2]) = 1
    /\ Count("black_box", Snippets[1]) = 1
    /\ Count("black_box", Snippets[2]) = 2

(***************************************************************************)
(* C8: the data of the benchmark source is the template with each marker    *)
(* replaced once by its value, the values themselves reaching the artifact *)
(* as they are.                                                            *)
(***************************************************************************)
C8_SinglePassSubstitution ==
    (pc = "rename" /\ filename = SOURCE) => data = OnePass(TIMEIT_RS, subst)

(***************************************************************************)
(* C9: however often the blocks are generated from one Args, a block is    *)
(* the same text each time, and the backend's line is in the dependency    *)
(* block and in the import block exactly once.                             *)
(***************************************************************************)
C9_GenerationRepeatable ==
    /\ \A i, j \in 1..Len(calls) :
          calls[i].method = calls[j].method => calls[i].ret = calls[j].ret
    /\ \A i \in 1..Len(calls) :
          /\ (calls[i].method = "dependencies" /\ args.cycles) =>
                Count(CYCLES_DEP[1], calls[i].ret) = 1
          /\ (calls[i].method = "uses" /\ args.cycles) =>
                Count(CYCLES_USE[1], calls[i].ret) = 1

(***************************************************************************)
(* C10: cargo is started at most once, from the state the clearing of      *)
(* target/criterion leaves (done or failed), with both artifacts created   *)
(* in this run and in place; a run that ends with fewer than two artifacts *)
(* created never started cargo and wrote nothing of the artifact that      *)
(* remained; an ended run takes no further step.                           *)
(***************************************************************************)
RunnerStartsReady ==
    (runner' # runner) =>
        /\ runner.starts = 0
        /\ pc = "run"
        /\ Len(created) = 2
        /\ created[1][1] = MANIFEST /\ created[2][1] = SOURCE
        /\ fs.files[MANIFEST] = Some(created[1][2])
        /\ fs.files[SOURCE] = Some(created[2][2])
        /\ fs.files[MANIFEST \o ".tmp"] = None
        /\ fs.files[SOURCE \o ".tmp"] = None

ClearedBeforeRun ==
    (pc' = "run" /\ pc # "run") =>
        /\ pc = "clear"
        /\ fs'.files[CRITERION] = None \/ fs' = fs

C10_RunnerOnceAfterArtifacts ==
    /\ [](runner.starts <= 1)
    /\ []((Exited /\ Len(created) < 2) => (runner.starts = 0 /\ exit = Some(1)))
    /\ []((Exited /\ Len(created) = 0 /\ cwd = "base") =>
             /\ fs.files[SOURCE] = (IF args.fresh THEN None ELSE fs0.files[SOURCE])
             /\ fs.files[SOURCE \o ".tmp"] = None)
    /\ [][RunnerStartsReady]_vars
    /\ [][ClearedBeforeRun]_vars
    /\ [][~Exited]_vars

C10_Witness ==
    /\ runner.starts = 1 /\ runner.status = Some(101)
    /\ fs0 = FsPopulated /\ ~args.fresh
    /\ fs.files[CRITERION] = fs0.files[CRITERION]
    /\ fs.files[MANIFEST] = Some(created[1][2])
    /\ fs.files[SOURCE] = Some(created[2][2])

====
